---- MODULE Spec2Model ----
(***************************************************************************)
(* Model of src/scrape/scraper.py: a single-domain breadth-first crawler   *)
(* that downloads the images of every page it reaches.                     *)
(*                                                                         *)
(* The script is one sequential loop.  Its position is pc:                 *)
(*   "loop"   at the while test of line 22                                 *)
(*   "imgs"   inside the for loop over <img> tags, lines 37-57             *)
(*   "links"  inside the for loop over <a href> tags, lines 60-67          *)
(*   "done"   after line 69                                                *)
(*   "crashed" an exception left the script                                *)
(* The remote site is the environment: the outcome of each HTTP GET and    *)
(* the tags of each fetched document are inputs, revealed tag by tag in    *)
(* document order as the two for loops consume them.                       *)
(***************************************************************************)
EXTENDS Naturals, Sequences, FiniteSets, TLC

\* Bounds of the model.
MaxImgs == 2    \* <img> tags per document
MaxLinks == 2   \* <a href> tags per document
GetCap == 2     \* the per-URL history counters saturate here

----------------------------------------------------------------------------
(* URL strings.  A string is held as what urlparse makes of it: scheme,    *)
(* netloc, path and fragment; the path is rooted or not, and segs are its  *)
(* "/"-separated segments after the leading "/" ("/" is <<"">>, "/d/" is   *)
(* <<"d", "">>, "" is << >>).                                              *)

Str(scheme, netloc, rooted, segs, fragment) ==
    [scheme |-> scheme, netloc |-> netloc, rooted |-> rooted,
     segs |-> segs, fragment |-> fragment]

Empty == Str("", "", FALSE, << >>, "")

\* line 7
base_url == Str("http", "x", TRUE, <<"">>, "")

\* href attribute values a document may carry
Hrefs ==
    { Str("", "", TRUE, <<"a">>, "s"),          \* /a#s
      Str("", "", TRUE, <<"a">>, "t"),          \* /a#t
      Str("", "", FALSE, << >>, "top"),         \* #top
      Str("", "", FALSE, <<"b">>, ""),          \* b
      Str("", "", TRUE, <<"d", "">>, ""),       \* /d/
      Str("http", "other", TRUE, <<"">>, ""),   \* http://other/
      Str("http", "[", FALSE, << >>, "") }      \* http://[

\* src attribute values a document may carry; Empty is a missing or empty src
ImgSrcs ==
    { Empty,
      Str("", "", TRUE, <<"logo.png">>, ""),          \* /logo.png
      Str("", "", TRUE, <<"logo.png">>, "v"),         \* /logo.png#v
      Str("http", "cdn", TRUE, <<"logo.png">>, ""),   \* http://cdn/logo.png
      Str("", "", TRUE, <<"d", "">>, "") }            \* /d/

\* urlsplit raises ValueError("Invalid IPv6 URL") on an unbalanced bracket
BadNetlocs == {"["}

Front(s) == IF s = << >> THEN << >> ELSE SubSeq(s, 1, Len(s) - 1)

\* urllib.parse.urljoin(base, url) for the references above (no dot segments,
\* params or queries occur in them)
urljoin(base, url) ==
    IF url = Empty THEN base
    ELSE IF url.scheme # "" /\ url.scheme # base.scheme THEN url
    ELSE IF url.netloc # "" THEN
        Str(base.scheme, url.netloc, url.rooted, url.segs, url.fragment)
    ELSE IF url.segs = << >> THEN
        Str(base.scheme, base.netloc, base.rooted, base.segs, url.fragment)
    ELSE IF url.rooted THEN
        Str(base.scheme, base.netloc, TRUE, url.segs, url.fragment)
    ELSE
        Str(base.scheme, base.netloc, TRUE, Front(base.segs) \o url.segs,
            url.fragment)

urljoinRaises(url) == url.netloc \in BadNetlocs

\* a['href'].split('#')[0]
NoFragmentMutant(href) == href
StripFragment(href) == [href EXCEPT !.fragment = ""]

\* urlparse(s).netloc
netloc(s) == s.netloc

\* line 17
domain == netloc(base_url)

\* line 64, negated: the link passes the domain filter
InDomainMutant(link) == TRUE
InDomain(link) == netloc(link) = domain

\* os.path.basename(urlparse(img_url).path)
basename(s) == IF s.segs = << >> THEN "" ELSE s.segs[Len(s.segs)]

----------------------------------------------------------------------------
VARIABLES
    pages_to_visit,     \* line 16: the frontier, a list
    visited_pages,      \* line 15
    downloaded_images,  \* line 20
    page,               \* line 23: the page being processed
    pc,                 \* position of the script
    nimg,               \* <img> tags of the current document consumed so far
    nlink,              \* <a href> tags of the current document consumed so far
    files,              \* names of the files in output_dir
    page_gets,          \* history: requests.get calls of line 29, per URL
    img_requested,      \* history: URLs line 45 has issued a requests.get for
    img_writes,         \* history: completed writes of lines 52-53, per URL
    enqueued,           \* history: every URL put on the frontier, in order
    dequeued,           \* history: every URL popped at line 23, in order
    depth,              \* history: the crawl depth at which a URL was first
                        \* queued (the seed's is 0)
    links_found,        \* history: the link graph seen so far: the URLs
                        \* other than the seed, without fragment, that the
                        \* <a href> tags of the fetched documents point to
                        \* on the seed's netloc
    ev                  \* history: what the last step did

vars == <<pages_to_visit, visited_pages, downloaded_images, page, pc, nimg,
          nlink, files, page_gets, img_requested, img_writes, enqueued,
          dequeued, depth, links_found, ev>>

Range(s) == {s[i] : i \in DOMAIN s}

Count(f, u) == IF u \in DOMAIN f THEN f[u] ELSE 0

Bump(f, u) ==
    [x \in DOMAIN f \cup {u} |->
        IF x = u
        THEN (IF Count(f, u) < GetCap THEN Count(f, u) + 1 ELSE GetCap)
        ELSE f[x]]

\* op: the step; ref: the attribute value of the tag it consumed; url: the
\* URL it acted on; out: what happened
Event(op, ref, url, out) == [op |-> op, ref |-> ref, url |-> url, out |-> out]

\* lines 15-20
Init ==
    /\ pages_to_visit = <<base_url>>
    /\ visited_pages = {}
    /\ downloaded_images = {}
    /\ page = Empty
    /\ pc = "loop"
    /\ nimg = 0
    /\ nlink = 0
    /\ files = {}
    /\ page_gets = << >>
    /\ img_requested = {}
    /\ img_writes = << >>
    /\ enqueued = <<base_url>>
    /\ dequeued = << >>
    /\ depth = (base_url :> 0)
    /\ links_found = {}
    /\ ev = Event("start", Empty, base_url, "")

\* line 23: pop(0) takes index 0 of the list
PopLastMutant(q) == Len(q)
PopIndex(q) == 1

RemoveAt(q, i) == SubSeq(q, 1, i - 1) \o SubSeq(q, i + 1, Len(q))

\* line 26
NoMarkMutant(v, p) == v
MarkVisited(v, p) == v \cup {p}

\* lines 28-34: where the script goes after the GET of line 29.  The response
\* is an error (timeout, connection error, raise_for_status: the except
\* clause continues), a body html.parser accepts, or a body it rejects
\* (BeautifulSoup raises, and line 34 is outside the try).
NoContinueMutant(resp) == IF resp = "rejected" THEN "crashed" ELSE "imgs"
AfterGet(resp) ==
    CASE resp = "error" -> "loop"
      [] resp = "html" -> "imgs"
      [] resp = "rejected" -> "crashed"

\* line 42
NeverDownloadedMutant(u, d) == FALSE
AlreadyDownloaded(u, d) == u \in d

\* line 66
NoFrontierTestMutant(link, v, q) == link \notin v
ShouldQueue(link, v, q) == link \notin v /\ link \notin Range(q)

\* line 67
ReplaceFrontierMutant(q, link) == <<link>>
Enqueue(q, link) == Append(q, link)

\* lines 22-34: one pass from the while test to the first for loop
Dequeue ==
    /\ pc = "loop"
    /\ pages_to_visit # << >>
    /\ LET i == PopIndex(pages_to_visit)
           p == pages_to_visit[i]
       IN  /\ pages_to_visit' = RemoveAt(pages_to_visit, i)
           /\ page' = p
           /\ dequeued' = Append(dequeued, p)
           /\ IF p \in visited_pages
              THEN /\ ev' = Event("dequeue", Empty, p, "skipped")
                   /\ UNCHANGED <<visited_pages, page_gets, pc>>
              ELSE /\ visited_pages' = MarkVisited(visited_pages, p)
                   /\ page_gets' = Bump(page_gets, p)
                   /\ \E resp \in {"error", "html", "rejected"} :
                        /\ ev' = Event("dequeue", Empty, p, resp)
                        /\ pc' = AfterGet(resp)
    /\ UNCHANGED <<downloaded_images, nimg, nlink, files, img_requested,
                   img_writes, enqueued, depth, links_found>>

\* the outcomes of an <img> tag in which line 45 issued its GET
Attempted == {"get_error", "no_filename", "write_error", "ok"}

\* lines 44-57: where the script goes after an <img> tag.  The try block
\* covers the GET and the write, and its except clause only prints, so every
\* outcome stays in the for loop.
UncaughtImageErrorMutant(out) ==
    IF out \in {"get_error", "write_error"} THEN "crashed" ELSE "imgs"
AfterImg(out) == "imgs"

\* lines 37-57: one <img> tag.  src is the tag's attribute; outcome is what
\* the network and the disk do if the download is attempted.
ImgTag ==
    /\ pc = "imgs"
    /\ nimg < MaxImgs
    /\ nimg' = nimg + 1
    /\ \E src \in ImgSrcs, outcome \in {"ok", "get_error", "write_error"} :
         LET img_url == urljoin(page, src)
             filename == basename(img_url)
             out == IF src = Empty THEN "no_src"
                    ELSE IF AlreadyDownloaded(img_url, downloaded_images)
                    THEN "duplicate"
                    ELSE IF outcome = "get_error" THEN "get_error"
                    ELSE IF filename = "" THEN "no_filename"
                    ELSE outcome
         IN  /\ ev' = Event("img", src, img_url, out)
             /\ pc' = AfterImg(out)
             /\ img_requested' = IF out \in Attempted
                                 THEN img_requested \cup {img_url}
                                 ELSE img_requested
             /\ IF out = "ok"
                THEN /\ files' = files \cup {filename}
                     /\ img_writes' = Bump(img_writes, img_url)
                     /\ downloaded_images' = downloaded_images \cup {img_url}
                ELSE UNCHANGED <<files, img_writes, downloaded_images>>
    /\ UNCHANGED <<pages_to_visit, visited_pages, page, nlink, page_gets,
                   enqueued, dequeued, depth, links_found>>

\* line 37: find_all('img') is exhausted
ImgsEnd ==
    /\ pc = "imgs"
    /\ pc' = "links"
    /\ nimg' = 0
    /\ ev' = Event("imgs_end", Empty, page, "")
    /\ UNCHANGED <<pages_to_visit, visited_pages, downloaded_images, page,
                   nlink, files, page_gets, img_requested, img_writes,
                   enqueued, dequeued, depth, links_found>>

\* lines 60-67: one <a href> tag
LinkTag ==
    /\ pc = "links"
    /\ nlink < MaxLinks
    /\ \E a \in Hrefs :
         LET href == StripFragment(a)
             link == urljoin(page, href)
             target == urljoin(page, [a EXCEPT !.fragment = ""])
         IN  IF urljoinRaises(href)
             THEN /\ pc' = "crashed"
                  /\ ev' = Event("link", a, href, "raised")
                  /\ UNCHANGED <<pages_to_visit, enqueued, depth, nlink,
                                 links_found>>
             ELSE /\ pc' = pc
                  /\ nlink' = nlink + 1
                  /\ links_found' =
                       IF target.netloc = base_url.netloc /\ target # base_url
                       THEN links_found \cup {target} ELSE links_found
                  /\ IF ~InDomain(link)
                     THEN /\ ev' = Event("link", a, link, "out_of_domain")
                          /\ UNCHANGED <<pages_to_visit, enqueued, depth>>
                     ELSE IF ShouldQueue(link, visited_pages, pages_to_visit)
                     THEN /\ ev' = Event("link", a, link, "queued")
                          /\ pages_to_visit' = Enqueue(pages_to_visit, link)
                          /\ enqueued' = Append(enqueued, link)
                          /\ depth' =
                               IF link \in DOMAIN depth THEN depth
                               ELSE [x \in DOMAIN depth \cup {link} |->
                                       IF x = link THEN depth[page] + 1
                                       ELSE depth[x]]
                     ELSE /\ ev' = Event("link", a, link, "known")
                          /\ UNCHANGED <<pages_to_visit, enqueued, depth>>
    /\ UNCHANGED <<visited_pages, downloaded_images, page, nimg, files,
                   page_gets, img_requested, img_writes, dequeued>>

\* line 60: find_all('a', href=True) is exhausted; back to the while test
LinksEnd ==
    /\ pc = "links"
    /\ pc' = "loop"
    /\ nlink' = 0
    /\ ev' = Event("links_end", Empty, page, "")
    /\ UNCHANGED <<pages_to_visit, visited_pages, downloaded_images, page,
                   nimg, files, page_gets, img_requested, img_writes,
                   enqueued, dequeued, depth, links_found>>

\* lines 22 and 69: the frontier is empty, "Scraping complete."
Exit ==
    /\ pc = "loop"
    /\ pages_to_visit = << >>
    /\ pc' = "done"
    /\ ev' = Event("exit", Empty, page, "")
    /\ UNCHANGED <<pages_to_visit, visited_pages, downloaded_images, page,
                   nimg, nlink, files, page_gets, img_requested, img_writes,
                   enqueued, dequeued, depth, links_found>>

Next == Dequeue \/ ImgTag \/ ImgsEnd \/ LinkTag \/ LinksEnd \/ Exit

Spec == Init /\ [][Next]_vars

----------------------------------------------------------------------------
(* Properties.                                                             *)

SameButFragment(u, v) == [u EXCEPT !.fragment = ""] = [v EXCEPT !.fragment = ""]

\* C1: every page URL is requested at most once; a requested URL is in
\* visited_pages from the step that requests it, whatever the response;
\* visited_pages never loses a URL; and the GET of line 29 is never issued
\* for a URL that is already in visited_pages.
C1_PageFetchedAtMostOnce ==
    /\ [](\A u \in DOMAIN page_gets :
            page_gets[u] <= 1 /\ u \in visited_pages)
    /\ [][visited_pages \subseteq visited_pages']_vars
    /\ [][\A u \in DOMAIN page_gets' :
            Count(page_gets', u) # Count(page_gets, u)
                => u \notin visited_pages /\ u \in visited_pages']_vars

\* C1 witness: a link to another page that was visited earlier, after that
\* page's GET failed or succeeded, is found again and the page has still been
\* requested once.
C1_Witness ==
    /\ ev.op = "link"
    /\ ev.out = "known"
    /\ ev.url \in visited_pages
    /\ ev.url # page
    /\ Count(page_gets, ev.url) = 1
    /\ Cardinality(visited_pages) >= 3

\* C2: the GET of line 45 is issued for an image URL only if it has never
\* been issued for that URL before, whether or not the earlier attempt
\* succeeded.
C2_ImageRequestedAtMostOnce ==
    [][(ev'.op = "img" /\ ev'.out \in Attempted)
            => ev'.url \notin img_requested]_vars

\* C3: a link joins the frontier only if its netloc is the seed's, and then
\* at the tail; every link whose netloc is the seed's and that is neither
\* visited nor queued joins it; no URL of another netloc is ever requested
\* as a page; and an <img> reference that is not yet downloaded is requested
\* whatever its netloc.
C3_DomainContainment ==
    /\ [](\A i \in DOMAIN enqueued : netloc(enqueued[i]) = netloc(base_url))
    /\ [](\A u \in DOMAIN page_gets : netloc(u) = netloc(base_url))
    /\ [][(ev'.op = "link" /\ ev'.out # "raised") =>
            /\ pages_to_visit' # pages_to_visit
                 => /\ netloc(ev'.url) = netloc(base_url)
                    /\ pages_to_visit' = Append(pages_to_visit, ev'.url)
            /\ ( /\ netloc(ev'.url) = netloc(base_url)
                 /\ ev'.url \notin visited_pages
                 /\ ev'.url \notin Range(pages_to_visit) )
                 => pages_to_visit' = Append(pages_to_visit, ev'.url)]_vars
    /\ [][(ev'.op = "img" /\ ev'.ref # Empty
              /\ ev'.url \notin downloaded_images)
            => ev'.url \in img_requested']_vars

\* C3 witness: an out-of-domain link has just been dropped while an image
\* of another host is in the output directory.
C3_Witness ==
    /\ ev.op = "link"
    /\ ev.out = "out_of_domain"
    /\ netloc(ev.url) # netloc(base_url)
    /\ \E u \in downloaded_images :
         netloc(u) # netloc(base_url) /\ Count(img_writes, u) = 1

\* C4: the URLs popped so far followed by the frontier are exactly the URLs
\* queued so far, in queueing order; depths never decrease along that order,
\* so a URL first found at depth d leaves the frontier before any first found
\* at depth d+1; and a link that is queued is put at the tail, in the order
\* the document's tags are consumed.
C4_FifoBreadthFirst ==
    /\ [](dequeued \o pages_to_visit = enqueued)
    /\ [](\A i, j \in DOMAIN enqueued :
            i < j => depth[enqueued[i]]
                        <= depth[enqueued[j]])
    /\ [](\A i \in DOMAIN dequeued : \A j \in DOMAIN pages_to_visit :
            depth[dequeued[i]]
                <= depth[pages_to_visit[j]])
    /\ [][(ev'.op = "link" /\ ev'.out = "queued")
            => pages_to_visit' = Append(pages_to_visit, ev'.url)]_vars

\* C4 witness: a depth-1 URL is being processed while the frontier holds a
\* depth-1 URL in front of a depth-2 URL.
C4_Witness ==
    /\ Len(pages_to_visit) >= 2
    /\ Len(dequeued) >= 2
    /\ depth[page] = 1
    /\ depth[pages_to_visit[1]] = 1
    /\ depth[pages_to_visit[Len(pages_to_visit)]] = 2

\* C5: the crawl reaches Done: short of Done the script always has a next
\* step (each pass of the loop removes a frontier entry and the frontier grows
\* only by in-domain URLs that are neither visited nor queued, so the steps
\* run out only at Done).
C5_CrawlReachesDone == pc = "done" \/ ENABLED Next

\* C6: a pass of the loop whose GET fails removes exactly the head of the
\* frontier, queues nothing, requests and writes no image, leaves
\* downloaded_images alone, leaves the page in visited_pages and returns to
\* the while test with everything that was queued behind the page still
\* queued in order; visited_pages never loses a URL.
C6_FailedPageIsolated ==
    /\ [][(ev'.op = "dequeue" /\ ev'.out = "error") =>
            /\ ev'.url = Head(pages_to_visit)
            /\ pages_to_visit' = Tail(pages_to_visit)
            /\ enqueued' = enqueued
            /\ downloaded_images' = downloaded_images
            /\ img_requested' = img_requested
            /\ files' = files
            /\ ev'.url \in visited_pages'
            /\ pc' = "loop"]_vars
    /\ [][visited_pages \subseteq visited_pages']_vars
    /\ [](pc = "loop" /\ pages_to_visit # << >> => ENABLED Dequeue)

\* C6 witness: a page's GET has just failed with other URLs queued behind it.
C6_Witness ==
    /\ ev.op = "dequeue"
    /\ ev.out = "error"
    /\ ev.url \in visited_pages
    /\ Len(pages_to_visit) >= 2
    /\ pc = "loop"

\* C7: no URL of the frontier, of visited_pages or ever queued carries a
\* fragment; no two URLs ever queued, and no two URLs ever requested, are
\* equal up to their fragment; and each is requested at most once.
C7_FragmentEquivalence ==
    /\ \A u \in Range(enqueued) \cup Range(pages_to_visit) \cup visited_pages :
         u.fragment = ""
    /\ \A i, j \in DOMAIN enqueued :
         SameButFragment(enqueued[i], enqueued[j]) => i = j
    /\ \A u, v \in DOMAIN page_gets :
         SameButFragment(u, v) => u = v /\ page_gets[u] <= 1

\* C7 witness: page /a, which only links carrying a fragment (/a#s, /a#t)
\* lead to, was queued without one and requested once, and the bare link
\* "#top" found on it has just been taken for the page itself.
C7_Witness ==
    /\ ev.op = "link"
    /\ ev.out = "known"
    /\ ev.ref.fragment = "top"
    /\ ev.url = page
    /\ page = urljoin(base_url, Str("", "", TRUE, <<"a">>, ""))
    /\ page \in Range(enqueued)
    /\ Count(page_gets, page) = 1

\* C8: when an image URL's file name is empty no file is written and the URL
\* is in downloaded_images afterwards.
C8_EmptyFilenameMarked ==
    /\ []((ev.op = "img" /\ ev.out = "no_filename")
            => ev.url \in downloaded_images)
    /\ [][(ev'.op = "img" /\ ev'.out = "no_filename")
            => files' = files]_vars

\* C9: a failure while parsing a fetched document or extracting its tags is
\* not fatal: after a body the parser rejects, or a reference urljoin cannot
\* resolve, the script has not been aborted and goes on with the frontier.
C9_ParseFailureNonFatal ==
    (ev.out \in {"rejected", "raised"}) => pc \in {"loop", "links"}

\* C10: the file of an image URL is written at most once, and only for a URL
\* that is in downloaded_images afterwards.
C10_ImageWrittenAtMostOnce ==
    \A u \in DOMAIN img_writes :
        img_writes[u] <= 1 /\ u \in downloaded_images

\* C10 witness: the seed page and a second page both carry /logo.png; the
\* second reference has just been skipped and logo.png was written once.
C10_Witness ==
    /\ ev.op = "img"
    /\ ev.out = "duplicate"
    /\ ev.url = urljoin(base_url, Str("", "", TRUE, <<"logo.png">>, ""))
    /\ page # base_url
    /\ Count(img_writes, ev.url) = 1
    /\ "logo.png" \in files

\* C11: the frontier never holds a URL twice nor a URL of visited_pages, so
\* the test of line 24 never finds the popped URL visited and every popped
\* URL is requested, once.
C11_FrontierHoldsOnlyNewUrls ==
    /\ \A i, j \in DOMAIN pages_to_visit :
         pages_to_visit[i] = pages_to_visit[j] => i = j
    /\ Range(pages_to_visit) \cap visited_pages = {}
    /\ ev.out # "skipped"
    /\ \A i, j \in DOMAIN dequeued : dequeued[i] = dequeued[j] => i = j
    /\ \A i \in DOMAIN dequeued : Count(page_gets, dequeued[i]) = 1

\* C11 witness: a link to a URL that waits in the frontier, not yet visited,
\* has just been found again and was not queued a second time, after a link
\* to a visited URL had been popped and requested.
C11_Witness ==
    /\ ev.op = "link"
    /\ ev.out = "known"
    /\ ev.url \in Range(pages_to_visit)
    /\ ev.url \notin visited_pages
    /\ Len(dequeued) >= 2
    /\ Len(pages_to_visit) >= 2

\* C12: an <img> tag whose GET or whose write fails leaves the script in the
\* for loop over the images with the next tag (or the end of the loop) as
\* its next step, and changes what the link loop reads (page, visited_pages,
\* the frontier) no more than a successful download does: not at all.  The
\* failed image is not in downloaded_images and no file is written for it.
C12_ImageFailureIsolated ==
    /\ [][(ev'.op = "img" /\ ev'.out \in {"get_error", "write_error"}) =>
            /\ pc' = "imgs"
            /\ page' = page
            /\ visited_pages' = visited_pages
            /\ pages_to_visit' = pages_to_visit
            /\ enqueued' = enqueued
            /\ downloaded_images' = downloaded_images
            /\ files' = files]_vars
    /\ [][(ev'.op = "img" /\ ev'.out = "ok") =>
            /\ pc' = "imgs"
            /\ page' = page
            /\ visited_pages' = visited_pages
            /\ pages_to_visit' = pages_to_visit
            /\ enqueued' = enqueued]_vars
    /\ []((ev.op = "img" /\ ev.out \in {"get_error", "write_error"}) =>
            /\ nimg < MaxImgs => ENABLED ImgTag
            /\ ENABLED ImgsEnd)
    /\ [](pc = "links" => ENABLED LinksEnd)
    /\ [](pc = "loop" => ENABLED Dequeue \/ ENABLED Exit)

\* C12 witness: on the seed page an image with a file name was requested
\* and none was downloaded (its GET or its write failed), and a link of the
\* page has just been queued.
C12_Witness ==
    /\ ev.op = "link"
    /\ ev.out = "queued"
    /\ page \in visited_pages
    /\ \E u \in img_requested : basename(u) # ""
    /\ downloaded_images = {}
    /\ Len(dequeued) = 1

\* C13: every URL of the frontier, of visited_pages and of downloaded_images
\* is absolute and carries no fragment, and no two image URLs that are equal
\* up to their fragment are both downloaded.
C13_StoredUrlsNormalized ==
    /\ \A u \in Range(pages_to_visit) \cup visited_pages
                \cup downloaded_images :
         u.scheme # "" /\ u.netloc # "" /\ u.fragment = ""
    /\ \A u, v \in DOMAIN img_writes : SameButFragment(u, v) => u = v

\* the URLs reachable from the seed along the links seen so far
Closure == {base_url} \cup links_found

\* C14: links are only ever found on a page of the closure, and at Done
\* visited_pages is exactly the closure: the seed and every URL that an
\* <a href> of a successfully fetched page points to on the seed's netloc,
\* fragment removed.
C14_VisitedIsClosure ==
    /\ pc \in {"imgs", "links"} => page \in Closure
    /\ pc = "done" => visited_pages = Closure

\* C14 witness: the crawl is Done after visiting the seed and at least three
\* linked pages, one of them first found at depth 2.
C14_Witness ==
    /\ pc = "done"
    /\ Cardinality(visited_pages) >= 4
    /\ Cardinality(links_found) >= 3
    /\ \E u \in visited_pages : depth[u] = 2

====
